---- MODULE Spec2Model ----
(***************************************************************************)
(* A model of pdf_platform.py, the offline PDF keyword search tool.        *)
(*                                                                         *)
(* Text is a sequence of one-character strings.  A Python dict is a        *)
(* sequence of <<key, value>> pairs with distinct keys, in insertion       *)
(* order.  A Python set is a set.  An optional argument is <<>> for None   *)
(* and <<x>> for the value x.  Only "." of the regex metacharacters is     *)
(* interpreted, and letter case is that of ASCII.                          *)
(*                                                                         *)
(* Specifications, one per entry point of the program:                     *)
(*   Spec          main()                                                  *)
(*   SpecKeywords  load_keywords(path)                                     *)
(*   SpecSearch    search_pdf(file_path, keywords)                         *)
(*   SpecGather    gather_pdf_paths(pdf_dir, pdf_file)                     *)
(*   SpecRun       write_csv(run_search(pdf_paths, keywords), out_path)    *)
(***************************************************************************)
EXTENDS Integers, Sequences, FiniteSets, TLC

VARIABLES
    entry,       \* the function the run entered: "main", "load_keywords", ...
    pc,          \* where the run is; "done" = returned, "aborted" = raised
    error,       \* the exception that ended the run, "None" when there is none
    flavour,     \* pathlib's flavour on this platform: "posix" or "nt"
    args,        \* the parsed command line (pdf_dir, pdf_file, output, ...)
    kwfile,      \* the keywords file: [exists, text]
    dirListing,  \* the PDF directory: [exists, names]
    fileExists,  \* whether the single PDF file exists
    docs,        \* what PdfReader finds at each path: [corrupt, pages]
    defined,     \* the locals of main / gather_pdf_paths that are bound
    keywords,    \* the keyword list
    pdf_paths,   \* the resolved path list
    pidx,        \* run_search: position of p in pdf_paths (1-based)
    cur,         \* search_pdf: file_path
    results,     \* search_pdf: dict keyword -> set of page numbers
    num_pages,   \* search_pdf: len(reader.pages)
    i,           \* search_pdf: the loop index
    visited,     \* search_pdf: the page indices whose text was requested
    ret,         \* search_pdf: the returned dict keyword -> sorted list
    aggregated,  \* run_search: dict filename -> search_pdf's result
    opened,      \* the paths PdfReader was asked to open, in order
    written,     \* the output files written, in order: [kind, path]
    csvRows,     \* the data rows of the CSV file
    printed      \* the status lines printed

vars == <<entry, pc, error, flavour, args, kwfile, dirListing, fileExists,
          docs, defined, keywords, pdf_paths, pidx, cur, results, num_pages,
          i, visited, ret, aggregated, opened, written, csvRows, printed>>

----------------------------------------------------------------------------
(* Characters *)

Ascii ==
    <<" ", "!", "\"", "#", "$", "%", "&", "'", "(", ")", "*", "+", ",", "-",
      ".", "/", "0", "1", "2", "3", "4", "5", "6", "7", "8", "9", ":", ";",
      "<", "=", ">", "?", "@", "A", "B", "C", "D", "E", "F", "G", "H", "I",
      "J", "K", "L", "M", "N", "O", "P", "Q", "R", "S", "T", "U", "V", "W",
      "X", "Y", "Z", "[", "\\", "]", "^", "_", "(grave)", "a", "b", "c", "d",
      "e",
      "f", "g", "h", "i", "j", "k", "l", "m", "n", "o", "p", "q", "r", "s",
      "t", "u", "v", "w", "x", "y", "z", "{", "|", "}", "~">>

\* The code point of a character (printable ASCII, tab, newline, return).
\* The grave accent, code point 96, is spelled out in Ascii: it only holds
\* the place between "_" and "a".
Ord(c) ==
    CASE c = "\t" -> 9
      [] c = "\n" -> 10
      [] c = "\r" -> 13
      [] OTHER -> 31 + (CHOOSE n \in 1..Len(Ascii) : Ascii[n] = c)

Chr(n) == Ascii[n - 31]

\* str.lower() on one character.
LowerChar(c) == IF Ord(c) \in 65..90 THEN Chr(Ord(c) + 32) ELSE c

\* str.lower()
Lower(s) == [n \in 1..Len(s) |-> LowerChar(s[n])]

\* The characters str.strip() removes.
Whitespace == {" ", "\t", "\n", "\r"}

\* The characters of the class [\n,] that load_keywords splits on.
Separators == {"\n", ","}

RECURSIVE SeqsUpTo(_, _)
\* All sequences over S of length at most n.
SeqsUpTo(S, n) ==
    IF n = 0 THEN {<<>>}
    ELSE LET shorter == SeqsUpTo(S, n - 1)
         IN shorter \cup {Append(s, x) : s \in {t \in shorter : Len(t) = n - 1}, x \in S}

----------------------------------------------------------------------------
(* load_keywords *)

RECURSIVE SplitFrom(_, _, _, _)
\* re.split(r"[\n,]+", text), scanning from position n with the piece `piece`
\* open and the pieces `pieces` closed: a run of separators closes one piece.
SplitFrom(text, n, piece, pieces) ==
    IF n > Len(text) THEN Append(pieces, piece)
    ELSE IF text[n] \in Separators
         THEN IF n < Len(text) /\ text[n + 1] \in Separators
              THEN SplitFrom(text, n + 1, piece, pieces)
              ELSE SplitFrom(text, n + 1, <<>>, Append(pieces, piece))
         ELSE SplitFrom(text, n + 1, Append(piece, text[n]), pieces)

ReSplit(text) == SplitFrom(text, 1, <<>>, <<>>)

RECURSIVE LStrip(_)
LStrip(s) ==
    IF s # <<>> /\ Head(s) \in Whitespace THEN LStrip(Tail(s)) ELSE s

RECURSIVE RStrip(_)
RStrip(s) ==
    IF s # <<>> /\ s[Len(s)] \in Whitespace
    THEN RStrip(SubSeq(s, 1, Len(s) - 1)) ELSE s

\* str.strip()
Strip(s) == RStrip(LStrip(s))

RECURSIVE StripAll(_)
\* [k.strip() for k in raw if k.strip()]
StripAll(raw) ==
    IF raw = <<>> THEN <<>>
    ELSE IF Strip(Head(raw)) # <<>>
         THEN <<Strip(Head(raw))>> \o StripAll(Tail(raw))
         ELSE StripAll(Tail(raw))

\* A split that keeps the text whole: what load_keywords would do without
\* its re.split.
LoadKeywordsCommaOnly(text) ==
    LET RECURSIVE Go(_, _, _)
        Go(n, piece, pieces) ==
            IF n > Len(text) THEN Append(pieces, piece)
            ELSE IF text[n] = ","
                 THEN Go(n + 1, <<>>, Append(pieces, piece))
                 ELSE Go(n + 1, Append(piece, text[n]), pieces)
    IN StripAll(Go(1, <<>>, <<>>))

\* load_keywords, given the file's text.
LoadKeywordsOf(text) == StripAll(ReSplit(text))

----------------------------------------------------------------------------
(* Python values *)

\* None, and a value that is present, for an optional argument.
None == <<>>
Some(x) == <<x>>

DictKeys(d) == {d[n][1] : n \in DOMAIN d}

DictGet(d, k) == d[CHOOSE n \in DOMAIN d : d[n][1] = k][2]

\* d[k] = v: a new key goes last, a key already there keeps its place.
DictSet(d, k, v) ==
    IF k \in DictKeys(d)
    THEN [n \in DOMAIN d |-> IF d[n][1] = k THEN <<k, v>> ELSE d[n]]
    ELSE Append(d, <<k, v>>)

RECURSIVE ListOfSet(_)
\* list(pages) without the sort: the pages in an order of the set's own
\* (here: descending).
ListOfSet(S) ==
    IF S = {} THEN <<>>
    ELSE LET most == CHOOSE x \in S : \A y \in S : y <= x
         IN <<most>> \o ListOfSet(S \ {most})

RECURSIVE SortedList(_)
\* sorted(list(pages)) for a set of integers
SortedList(S) ==
    IF S = {} THEN <<>>
    ELSE LET least == CHOOSE x \in S : \A y \in S : x <= y
         IN <<least>> \o SortedList(S \ {least})

----------------------------------------------------------------------------
(* The re module, as far as search_pdf uses it *)

\* The characters re.escape puts a backslash before.
RegexSpecial ==
    {"(", ")", "[", "]", "{", "}", "?", "*", "+", "-", "|", "^", "$", "\\",
     ".", "&", "~", "#", " ", "\t", "\n", "\r"}

RECURSIVE ReEscape(_)
\* re.escape(k)
ReEscape(k) ==
    IF k = <<>> THEN <<>>
    ELSE (IF Head(k) \in RegexSpecial THEN <<"\\", Head(k)>> ELSE <<Head(k)>>)
         \o ReEscape(Tail(k))

RECURSIVE ReCompile(_)
\* re.compile(pattern, re.IGNORECASE): the pattern as a sequence of atoms.
\* A backslash makes the next character a literal; an unescaped "." matches
\* any character but a newline; any other character is a literal.  (The
\* other metacharacters reach re.compile only behind a backslash.)
ReCompile(pattern) ==
    IF pattern = <<>> THEN <<>>
    ELSE IF Head(pattern) = "\\" /\ Len(pattern) >= 2
         THEN <<[kind |-> "lit", ch |-> pattern[2]]>>
              \o ReCompile(Tail(Tail(pattern)))
         ELSE IF Head(pattern) = "."
              THEN <<[kind |-> "any", ch |-> "."]>> \o ReCompile(Tail(pattern))
              ELSE <<[kind |-> "lit", ch |-> Head(pattern)]>>
                   \o ReCompile(Tail(pattern))

\* One atom against one character, under re.IGNORECASE.
AtomMatches(atom, c) ==
    IF atom.kind = "any" THEN c # "\n"
    ELSE LowerChar(atom.ch) = LowerChar(c)

\* pat.search(text): the pattern matches at some position of the text.
ReSearch(pat, text) ==
    \E start \in 0..(Len(text) - Len(pat)) :
        \A n \in 1..Len(pat) : AtomMatches(pat[n], text[start + n])

\* A pattern compiled from the keyword as it stands, without re.escape.
PatternUnescaped(k) == ReCompile(k)

\* patterns[k] = re.compile(re.escape(k), re.IGNORECASE)
PatternOf(k) == ReCompile(ReEscape(k))

RECURSIVE Patterns(_)
\* {k: re.compile(re.escape(k), re.IGNORECASE) for k in keywords}
Patterns(ks) ==
    IF ks = <<>> THEN <<>>
    ELSE DictSet(Patterns(SubSeq(ks, 1, Len(ks) - 1)), ks[Len(ks)],
                 PatternOf(ks[Len(ks)]))

RECURSIVE EmptySets(_)
\* {k: set() for k in keywords}
EmptySets(ks) ==
    IF ks = <<>> THEN <<>>
    ELSE DictSet(EmptySets(SubSeq(ks, 1, Len(ks) - 1)), ks[Len(ks)], {})

----------------------------------------------------------------------------
(* pathlib, as far as gather_pdf_paths and run_search use it *)

\* A path is [parent, name]: p.name is its last component.
PathOf(parent, name) == [parent |-> parent, name |-> name]

\* PurePath.suffix: from the last dot of the name, unless that dot is the
\* first or the last character of the name.
Suffix(name) ==
    LET dots == {n \in 1..Len(name) : name[n] = "."}
        last == IF dots = {} THEN 0 ELSE CHOOSE n \in dots : \A m \in dots : m <= n
    IN IF 1 < last /\ last < Len(name) THEN SubSeq(name, last, Len(name)) ELSE <<>>

\* a < b for two strings: by code point, the shorter first on a common prefix.
LexLess(a, b) ==
    \E n \in 1..Len(b) :
        /\ n <= Len(a) + 1
        /\ \A m \in 1..(n - 1) : a[m] = b[m]
        /\ (n = Len(a) + 1 \/ Ord(a[n]) < Ord(b[n]))

\* What PurePath.__lt__ compares for the children of one directory: the name,
\* case-folded by the Windows flavour, as it stands by the POSIX flavour.
SortKey(p) == IF flavour = "nt" THEN Lower(p.name) ELSE p.name

\* sorted() that leaves the paths in the order iterdir() gave them (here: the
\* reverse of the path order), as if the call were list().
SortedPathsUnsorted(S) ==
    LET RECURSIVE Go(_)
        Go(T) ==
            IF T = {} THEN <<>>
            ELSE LET last == CHOOSE x \in T :
                                 \A y \in T \ {x} : LexLess(SortKey(y), SortKey(x))
                 IN <<last>> \o Go(T \ {last})
    IN Go(S)

RECURSIVE SortedPaths(_)
\* sorted(paths) for the children of one directory
SortedPaths(S) ==
    IF S = {} THEN <<>>
    ELSE LET least == CHOOSE x \in S :
                          \A y \in S \ {x} : ~LexLess(SortKey(y), SortKey(x))
         IN <<least>> \o SortedPaths(S \ {least})

----------------------------------------------------------------------------
(* Report rows *)

RECURSIVE Str(_)
\* str(n) for n >= 0
Str(n) == IF n < 10 THEN <<Chr(48 + n)>> ELSE Str(n \div 10) \o <<Chr(48 + (n % 10))>>

RECURSIVE PagesCsv(_)
\* ", ".join(str(p) for p in pages)
PagesCsv(pages) ==
    IF pages = <<>> THEN <<>>
    ELSE IF Len(pages) = 1 THEN Str(pages[1])
         ELSE Str(pages[1]) \o <<",", " ">> \o PagesCsv(Tail(pages))

\* Rows for the keywords that matched only: a writer that leaves out the
\* keywords without a page.
FileRowsMatchedOnly(fname, mapping) ==
    LET matched == SelectSeq(mapping, LAMBDA item : item[2] # <<>>)
    IN [n \in DOMAIN matched |-> <<fname, matched[n][1], PagesCsv(matched[n][2])>>]

\* The rows write_csv writes for one file's mapping.
FileRows(fname, mapping) ==
    [n \in DOMAIN mapping |-> <<fname, mapping[n][1], PagesCsv(mapping[n][2])>>]

RECURSIVE CsvRows(_)
\* The data rows write_csv writes, in order.
CsvRows(data) ==
    IF data = <<>> THEN <<>>
    ELSE FileRows(data[1][1], data[1][2]) \o CsvRows(Tail(data))

----------------------------------------------------------------------------
(* The inputs the runs are drawn from *)

\* Bounds of the model.
MaxPages == 3
MaxKeywords == 2
MaxContentLen == 4
MaxPaths == 2

\* Page texts and keywords.
TxtInvoice == <<"I", "n", "v", "o", "i", "c", "e">>
TxtDotted == <<"a", ".", "b">>
TxtPlain == <<"a", "x", "b">>
TxtMixed == <<"x", " ", "A", ".", "B", " ", "i", "n", "v", "o", "i", "c", "e">>
KwInvoice == <<"i", "n", "v", "o", "i", "c", "e">>
KwInvoiceUpper == <<"I", "N", "V", "O", "I", "C", "E">>
KwDotted == <<"a", ".", "b">>
KwX == <<"x">>

TextPool == {<<>>, TxtInvoice, TxtDotted, TxtPlain, TxtMixed}
KeywordPool == {KwInvoice, KwInvoiceUpper, KwDotted}

\* A page of a PDF: extract_text() raises, or returns the text ("" stands
\* for None as well: the code reads `or ""`).
FailingPage == [fails |-> TRUE, text |-> <<>>]
TextPage(t) == [fails |-> FALSE, text |-> t]
PageKinds == {FailingPage} \cup {TextPage(t) : t \in TextPool}

\* What PdfReader finds in a file: it cannot read it, or a list of pages.
CorruptDoc == [corrupt |-> TRUE, pages |-> <<>>]
DocOf(pages) == [corrupt |-> FALSE, pages |-> pages]
Docs == {CorruptDoc} \cup {DocOf(ps) : ps \in SeqsUpTo(PageKinds, MaxPages)}

\* The documents of the runs of main and of run_search.
SmallDocs ==
    {CorruptDoc,
     DocOf(<<TextPage(TxtInvoice)>>),
     DocOf(<<FailingPage, TextPage(TxtMixed), TextPage(TxtDotted)>>)}

\* Keyword files.
KwAlphabet == {"a", "b", ",", "\n", " "}
ExampleContent == <<"A", "l", "p", "h", "a", ",", " ", "b", "e", "t", "a", "\n", "g", "a", "m", "m", "a", ",">>
KwContents == SeqsUpTo(KwAlphabet, MaxContentLen) \cup {ExampleContent}
MissingFile == [exists |-> FALSE, text |-> <<>>]
FileOf(text) == [exists |-> TRUE, text |-> text]

\* The keyword files of the runs of main and of run_search: no keyword, one
\* keyword, one keyword twice, two keywords.
SmallContents ==
    {<<>>, <<" ", ",", "\n">>, <<"a", ".", "b">>, <<"x", ",", "x">>, <<"i", "n", "v", "o", "i", "c", "e", "\n", "x">>}

\* Directory entries.
NameB == <<"B", ".", "p", "d", "f">>
NameA == <<"a", ".", "P", "D", "F">>
NameC == <<"c", ".", "t", "x", "t">>
NameD == <<"d", ".", "P", "d", "f">>
NameHidden == <<".", "p", "d", "f">>
NameBare == <<"p", "d", "f">>
GatherNames == {NameB, NameA, NameC, NameD, NameHidden, NameBare}
MainNames == {NameB, NameA, NameC}
MissingDir == [exists |-> FALSE, names |-> {}]
DirOf(names) == [exists |-> TRUE, names |-> names]

PdfDir == "pdfs"
PdfFile == PathOf("in", <<"r", "e", "p", "o", "r", "t", ".", "p", "d", "f">>)
Child(name) == PathOf(PdfDir, name)
IsPdfName(name) == Lower(Suffix(name)) = <<".", "p", "d", "f">>

\* The paths run_search is given when it is entered directly: two of them
\* share their base name.
RunPaths ==
    {PathOf("d1", NameA), PathOf("d2", NameA), PathOf("d1", NameB)}

NoArgs ==
    [pdf_dir |-> None, pdf_file |-> None, output |-> None,
     output_csv |-> None, output_dir |-> None]

OutputArg == PathOf("out", <<"r", ".", "j", "s", "o", "n">>)
OutputCsvArg == PathOf("out", <<"r", ".", "c", "s", "v">>)
OutputDirArg == "reports"

NoPath == PathOf("", <<>>)

----------------------------------------------------------------------------
(* Initial states *)

SearchIdle ==
    /\ cur = NoPath
    /\ results = <<>>
    /\ num_pages = 0
    /\ i = 0
    /\ visited = <<>>
    /\ ret = <<>>

OutputIdle ==
    /\ aggregated = <<>>
    /\ opened = <<>>
    /\ written = <<>>
    /\ csvRows = <<>>
    /\ printed = <<>>

NoFiles ==
    /\ kwfile = MissingFile
    /\ dirListing = MissingDir
    /\ fileExists = FALSE

\* load_keywords(path) on any keywords file.
InitKeywords ==
    /\ entry = "load_keywords"
    /\ pc = "load_keywords"
    /\ error = "None"
    /\ flavour = "posix"
    /\ args = NoArgs
    /\ kwfile \in {MissingFile} \cup {FileOf(t) : t \in KwContents}
    /\ dirListing = MissingDir
    /\ fileExists = FALSE
    /\ docs = <<>>
    /\ defined = {}
    /\ keywords = <<>>
    /\ pdf_paths = <<>>
    /\ pidx = 0
    /\ SearchIdle
    /\ OutputIdle

\* search_pdf(file_path, keywords) on any document and keyword list.
InitSearch ==
    /\ entry = "search_pdf"
    /\ pc = "open"
    /\ error = "None"
    /\ flavour = "posix"
    /\ args = NoArgs
    /\ NoFiles
    /\ \E d \in Docs : docs = (PdfFile :> d)
    /\ defined = {"keywords"}
    /\ keywords \in SeqsUpTo(KeywordPool, MaxKeywords)
    /\ pdf_paths = <<>>
    /\ pidx = 0
    /\ cur = PdfFile
    /\ results = <<>>
    /\ num_pages = 0
    /\ i = 0
    /\ visited = <<>>
    /\ ret = <<>>
    /\ OutputIdle

\* gather_pdf_paths(pdf_dir, pdf_file) with each argument given or None.
InitGather ==
    /\ entry = "gather_pdf_paths"
    /\ pc = "gather"
    /\ error = "None"
    /\ flavour \in {"posix", "nt"}
    /\ \E d \in {None, Some(PdfDir)}, f \in {None, Some(PdfFile)} :
           args = [NoArgs EXCEPT !.pdf_dir = d, !.pdf_file = f]
    /\ kwfile = MissingFile
    /\ dirListing \in {MissingDir} \cup {DirOf(ns) : ns \in SUBSET GatherNames}
    /\ fileExists \in BOOLEAN
    /\ docs = <<>>
    /\ defined = {}
    /\ keywords = <<>>
    /\ pdf_paths = <<>>
    /\ pidx = 0
    /\ SearchIdle
    /\ OutputIdle

\* write_csv(run_search(pdf_paths, keywords), out_path) on any path list and
\* any keyword list load_keywords produces.
InitRun ==
    /\ entry = "run_search"
    /\ pc = "run_search"
    /\ error = "None"
    /\ flavour = "posix"
    /\ args = [NoArgs EXCEPT !.output_csv = Some(OutputCsvArg)]
    /\ NoFiles
    /\ docs \in [RunPaths -> SmallDocs]
    /\ defined = {"keywords", "pdf_paths"}
    /\ keywords \in {LoadKeywordsOf(t) : t \in SmallContents}
    /\ pdf_paths \in SeqsUpTo(RunPaths, MaxPaths)
    /\ pidx = 1
    /\ SearchIdle
    /\ OutputIdle

\* parse_args: exactly one of --pdf-dir and --pdf-file, --keywords-file
\* always, each output option given or not.
ParsedArgs ==
    {[pdf_dir |-> d, pdf_file |-> f, output |-> o, output_csv |-> c,
      output_dir |-> od] :
        d \in {None, Some(PdfDir)}, f \in {None, Some(PdfFile)},
        o \in {None, Some(OutputArg)}, c \in {None, Some(OutputCsvArg)},
        od \in {None, Some(OutputDirArg)}}

parse_args == {a \in ParsedArgs : (a.pdf_dir = None) # (a.pdf_file = None)}

\* main() on any command line parse_args accepts and any file system.
Init ==
    /\ entry = "main"
    /\ pc = "load_keywords"
    /\ error = "None"
    /\ flavour \in {"posix", "nt"}
    /\ args \in parse_args
    /\ kwfile \in {MissingFile} \cup {FileOf(t) : t \in SmallContents}
    /\ IF args.pdf_dir # None
       THEN /\ dirListing \in {MissingDir} \cup {DirOf(ns) : ns \in SUBSET MainNames}
            /\ fileExists = FALSE
            /\ docs \in [{Child(n) : n \in {m \in dirListing.names : IsPdfName(m)}}
                          -> SmallDocs]
       ELSE /\ dirListing = MissingDir
            /\ fileExists \in BOOLEAN
            /\ docs \in [IF fileExists THEN {PdfFile} ELSE {} -> SmallDocs]
    /\ defined = {}
    /\ keywords = <<>>
    /\ pdf_paths = <<>>
    /\ pidx = 0
    /\ SearchIdle
    /\ OutputIdle

----------------------------------------------------------------------------
(* load_keywords and gather_pdf_paths *)

env == <<entry, flavour, args, kwfile, dirListing, fileExists, docs>>
searchVars == <<cur, results, num_pages, i, visited, ret>>
outputVars == <<aggregated, opened, written, csvRows, printed>>

\* The children of the directory that pass the filter of line 100.
PdfChildren == {Child(n) : n \in {m \in dirListing.names : IsPdfName(m)}}

\* gather_pdf_paths without its two exists() checks: a missing file is
\* returned as it is, a missing directory lists nothing.
GatherPdfPathsUnchecked(pdf_dir, pdf_file) ==
    IF pdf_file # None
    THEN [error |-> "None", paths |-> <<pdf_file[1]>>]
    ELSE IF pdf_dir # None
         THEN [error |-> "None", paths |-> SortedPaths(PdfChildren)]
         ELSE [error |-> "ValueError", paths |-> <<>>]

\* gather_pdf_paths: the exception it raises ("None": it returns) and the
\* list it returns.
GatherPdfPaths(pdf_dir, pdf_file) ==
    IF pdf_file # None
    THEN IF ~fileExists
         THEN [error |-> "FileNotFoundError", paths |-> <<>>]
         ELSE [error |-> "None", paths |-> <<pdf_file[1]>>]
    ELSE IF pdf_dir # None
         THEN IF ~dirListing.exists
              THEN [error |-> "FileNotFoundError", paths |-> <<>>]
              ELSE [error |-> "None", paths |-> SortedPaths(PdfChildren)]
         ELSE [error |-> "ValueError", paths |-> <<>>]

\* A call of load_keywords from outside main.
LoadKeywords ==
    /\ entry = "load_keywords"
    /\ pc = "load_keywords"
    /\ IF kwfile.exists
       THEN /\ keywords' = LoadKeywordsOf(kwfile.text)
            /\ defined' = defined \cup {"keywords"}
            /\ pc' = "done"
            /\ error' = error
       ELSE /\ error' = "FileNotFoundError"
            /\ pc' = "aborted"
            /\ UNCHANGED <<keywords, defined>>
    /\ UNCHANGED <<env, pdf_paths, pidx, searchVars, outputVars>>

\* A call of gather_pdf_paths from outside main.
Gather ==
    /\ entry = "gather_pdf_paths"
    /\ pc = "gather"
    /\ LET got == GatherPdfPaths(args.pdf_dir, args.pdf_file)
       IN IF got.error = "None"
          THEN /\ pdf_paths' = got.paths
               /\ defined' = defined \cup {"pdf_paths"}
               /\ pc' = "done"
               /\ error' = error
          ELSE /\ error' = got.error
               /\ pc' = "aborted"
               /\ UNCHANGED <<pdf_paths, defined>>
    /\ UNCHANGED <<env, keywords, pidx, searchVars, outputVars>>

----------------------------------------------------------------------------
(* search_pdf *)

\* PdfReader that leaves out a file it cannot read, as a document without
\* pages, and lets the batch go on.
OpenPdfSkipCorrupt ==
    /\ pc = "open"
    /\ opened' = Append(opened, cur)
    /\ results' = EmptySets(keywords)
    /\ num_pages' = Len(docs[cur].pages)
    /\ i' = 0
    /\ visited' = <<>>
    /\ pc' = "page"
    /\ UNCHANGED <<env, error, defined, keywords, pdf_paths, pidx, cur, ret,
                   aggregated, written, csvRows, printed>>

\* Lines 41-47: the result sets, the reader, the page count.  A file that
\* PdfReader cannot read raises out of search_pdf and out of its callers.
OpenPdf ==
    /\ pc = "open"
    /\ opened' = Append(opened, cur)
    /\ results' = EmptySets(keywords)
    /\ IF docs[cur].corrupt
       THEN /\ error' = "PdfReadError"
            /\ pc' = "aborted"
            /\ UNCHANGED <<num_pages, i, visited>>
       ELSE /\ num_pages' = Len(docs[cur].pages)
            /\ i' = 0
            /\ visited' = <<>>
            /\ pc' = "page"
            /\ error' = error
    /\ UNCHANGED <<env, defined, keywords, pdf_paths, pidx, cur, ret,
                   aggregated, written, csvRows, printed>>

RECURSIVE AddMatches(_, _, _, _)
\* Lines 59-61: for k, pat in patterns.items(): if pat.search(text):
\* results[k].add(page)
AddMatches(res, pats, text, page) ==
    IF pats = <<>> THEN res
    ELSE LET k == pats[1][1]
             hit == ReSearch(pats[1][2], text)
             next == IF hit THEN DictSet(res, k, DictGet(res, k) \cup {page})
                     ELSE res
         IN AddMatches(next, Tail(pats), text, page)

\* The text search_pdf holds for page n (1-based) after its try/except.
PageText(doc, n) == IF doc.pages[n].fails THEN <<>> ELSE doc.pages[n].text

\* The loop without its try/except: a page whose extraction raises ends
\* search_pdf with that exception.
VisitPageUncaught ==
    /\ pc = "page"
    /\ i < num_pages
    /\ visited' = Append(visited, i)
    /\ IF docs[cur].pages[i + 1].fails
       THEN /\ error' = "PageError"
            /\ pc' = "aborted"
            /\ UNCHANGED <<results, i>>
       ELSE /\ LET text == docs[cur].pages[i + 1].text
               IN results' = IF text = <<>> THEN results
                             ELSE AddMatches(results, Patterns(keywords), text, i + 1)
            /\ i' = i + 1
            /\ UNCHANGED <<pc, error>>
    /\ UNCHANGED <<env, defined, keywords, pdf_paths, pidx, cur, num_pages,
                   ret, aggregated, opened, written, csvRows, printed>>

\* Lines 49-61, one turn of the loop over the pages.
VisitPage ==
    /\ pc = "page"
    /\ i < num_pages
    /\ visited' = Append(visited, i)
    /\ LET text == PageText(docs[cur], i + 1)
       IN results' = IF text = <<>> THEN results
                     ELSE AddMatches(results, Patterns(keywords), text, i + 1)
    /\ i' = i + 1
    /\ UNCHANGED <<env, pc, error, defined, keywords, pdf_paths, pidx, cur,
                   num_pages, ret, aggregated, opened, written, csvRows,
                   printed>>

\* Line 64: {k: sorted(list(pages)) for k, pages in results.items()}
SortedResults(res) == [n \in DOMAIN res |-> <<res[n][1], SortedList(res[n][2])>>]

\* Line 64, and in run_search line 70: aggregated[str(p.name)] = the result.
ReturnSearch ==
    /\ pc = "page"
    /\ i >= num_pages
    /\ ret' = SortedResults(results)
    /\ IF entry = "search_pdf"
       THEN /\ pc' = "done"
            /\ UNCHANGED <<aggregated, pidx>>
       ELSE /\ aggregated' = DictSet(aggregated, cur.name, ret')
            /\ pidx' = pidx + 1
            /\ pc' = "run_search"
    /\ UNCHANGED <<env, error, defined, keywords, pdf_paths, cur, results,
                   num_pages, i, visited, opened, written, csvRows, printed>>

----------------------------------------------------------------------------
(* main, run_search and the report writers *)

\* main without the early return of lines 120-122: an empty keyword list
\* goes on to the search.
MainLoadKeywordsNoReturn ==
    /\ entry = "main"
    /\ pc = "load_keywords"
    /\ IF kwfile.exists
       THEN /\ keywords' = LoadKeywordsOf(kwfile.text)
            /\ defined' = defined \cup {"keywords"}
            /\ error' = error
            /\ pc' = "gather"
       ELSE /\ error' = "FileNotFoundError"
            /\ pc' = "aborted"
            /\ UNCHANGED <<keywords, defined>>
    /\ UNCHANGED <<env, pdf_paths, pidx, searchVars, outputVars>>

\* Lines 119-122: load the keywords; no keyword: a message, and return.
MainLoadKeywords ==
    /\ entry = "main"
    /\ pc = "load_keywords"
    /\ IF kwfile.exists
       THEN LET loaded == LoadKeywordsOf(kwfile.text)
            IN /\ keywords' = loaded
               /\ defined' = defined \cup {"keywords"}
               /\ error' = error
               /\ IF loaded = <<>>
                  THEN /\ printed' = Append(printed, "No keywords found")
                       /\ pc' = "done"
                  ELSE /\ printed' = printed
                       /\ pc' = "gather"
       ELSE /\ error' = "FileNotFoundError"
            /\ pc' = "aborted"
            /\ UNCHANGED <<keywords, defined, printed>>
    /\ UNCHANGED <<env, pdf_paths, pidx, searchVars, aggregated, opened,
                   written, csvRows>>

\* Lines 124-129: resolve the paths; no path: a message, and return;
\* otherwise the status line, and run_search is entered.
MainGather ==
    /\ entry = "main"
    /\ pc = "gather"
    /\ LET got == GatherPdfPaths(args.pdf_dir, args.pdf_file)
       IN IF got.error = "None"
          THEN /\ pdf_paths' = got.paths
               /\ defined' = defined \cup {"pdf_paths"}
               /\ error' = error
               /\ IF got.paths = <<>>
                  THEN /\ printed' = Append(printed, "No PDF files found")
                       /\ pc' = "done"
                       /\ pidx' = pidx
                  ELSE /\ printed' = Append(printed, "Searching")
                       /\ pc' = "run_search"
                       /\ pidx' = 1
          ELSE /\ error' = got.error
               /\ pc' = "aborted"
               /\ UNCHANGED <<pdf_paths, defined, printed, pidx>>
    /\ UNCHANGED <<env, keywords, searchVars, aggregated, opened, written,
                   csvRows>>

\* Lines 69-70: the next path of the list is handed to search_pdf.
RunSearchCall ==
    /\ pc = "run_search"
    /\ pidx <= Len(pdf_paths)
    /\ cur' = pdf_paths[pidx]
    /\ pc' = "open"
    /\ UNCHANGED <<env, error, defined, keywords, pdf_paths, pidx, results,
                   num_pages, i, visited, ret, outputVars>>

\* Line 71: the list is exhausted and run_search returns the mapping.
RunSearchReturn ==
    /\ pc = "run_search"
    /\ pidx > Len(pdf_paths)
    /\ pc' = IF entry = "main" THEN "write_json" ELSE "write_csv"
    /\ UNCHANGED <<env, error, defined, keywords, pdf_paths, pidx, searchVars,
                   outputVars>>

\* Line 132
OutJson ==
    IF args.output # None THEN args.output[1]
    ELSE IF args.output_dir # None
         THEN PathOf(args.output_dir[1], <<"s", "e", "a", "r", "c", "h", "_", "r", "e", "s", "u", "l", "t", "s", ".", "j", "s", "o", "n">>)
         ELSE PathOf(".", <<"s", "e", "a", "r", "c", "h", "_", "r", "e", "s", "u", "l", "t", "s", ".", "j", "s", "o", "n">>)

\* Line 136: the CSV path, or None
OutCsv ==
    IF args.output_csv # None THEN args.output_csv
    ELSE IF args.output_dir # None
         THEN Some(PathOf(args.output_dir[1], <<"s", "e", "a", "r", "c", "h", "_", "r", "e", "s", "u", "l", "t", "s", ".", "c", "s", "v">>))
         ELSE None

\* Lines 132-137 with write_json (74-76): the JSON file is written; without
\* a CSV path main returns.
WriteJson ==
    /\ entry = "main"
    /\ pc = "write_json"
    /\ written' = Append(written, [kind |-> "json", path |-> OutJson])
    /\ printed' = Append(printed, "JSON results written")
    /\ pc' = IF OutCsv # None THEN "write_csv" ELSE "done"
    /\ UNCHANGED <<env, error, defined, keywords, pdf_paths, pidx, searchVars,
                   aggregated, opened, csvRows>>

\* Lines 138-139 with write_csv (79-88): the CSV file is written.
WriteCsv ==
    /\ pc = "write_csv"
    /\ written' = Append(written, [kind |-> "csv", path |-> OutCsv[1]])
    /\ csvRows' = CsvRows(aggregated)
    /\ printed' = IF entry = "main" THEN Append(printed, "CSV summary written")
                  ELSE printed
    /\ pc' = "done"
    /\ UNCHANGED <<env, error, defined, keywords, pdf_paths, pidx, searchVars,
                   aggregated, opened>>

----------------------------------------------------------------------------
(* Specifications *)

Next ==
    \/ MainLoadKeywords
    \/ MainGather
    \/ RunSearchCall
    \/ OpenPdf
    \/ VisitPage
    \/ ReturnSearch
    \/ RunSearchReturn
    \/ WriteJson
    \/ WriteCsv

Spec == Init /\ [][Next]_vars

NextKeywords == LoadKeywords

SpecKeywords == InitKeywords /\ [][NextKeywords]_vars

NextSearch == OpenPdf \/ VisitPage \/ ReturnSearch

SpecSearch == InitSearch /\ [][NextSearch]_vars

NextGather == Gather

SpecGather == InitGather /\ [][NextGather]_vars

NextRun ==
    \/ RunSearchCall
    \/ OpenPdf
    \/ VisitPage
    \/ ReturnSearch
    \/ RunSearchReturn
    \/ WriteCsv

SpecRun == InitRun /\ [][NextRun]_vars

----------------------------------------------------------------------------
(* search_pdf: claims C1, C2, C3, checked under SpecSearch *)

\* The elements of a list.
Range(seq) == {seq[n] : n \in DOMAIN seq}

\* The pages of the document search_pdf was given.
Pages == docs[cur].pages

\* k occurs in text as a literal substring, letter case aside.
ContainsIgnoringCase(text, k) ==
    \E start \in 0..(Len(text) - Len(k)) :
        \A n \in 1..Len(k) : LowerChar(text[start + n]) = LowerChar(k[n])

\* search_pdf has returned its mapping.
SearchReturned == entry = "search_pdf" /\ pc = "done"

\* C1: the mapping search_pdf returns has every supplied keyword as a key,
\* once, and each value is a strictly ascending list of page numbers between
\* 1 and the page count (empty when nothing matched).
C1_KeysAndAscendingPages ==
    SearchReturned =>
        /\ \A n \in DOMAIN keywords : keywords[n] \in DictKeys(ret)
        /\ \A a, b \in DOMAIN ret : ret[a][1] = ret[b][1] => a = b
        /\ \A n \in DOMAIN ret :
               LET pages == ret[n][2]
               IN \A m \in DOMAIN pages :
                      /\ pages[m] \in 1..Len(Pages)
                      /\ m > 1 => pages[m - 1] < pages[m]

\* A keyword given twice, a page that fails, a keyword on two pages and a
\* keyword on none.
C1_Witness ==
    /\ SearchReturned
    /\ Len(keywords) = 2 /\ keywords[1] = keywords[2]
    /\ Len(ret) = 1
    /\ Len(ret[1][2]) = 2
    /\ \E n \in DOMAIN Pages : Pages[n].fails

FirstOccurrences(ks) ==
    LET firsts == {n \in DOMAIN ks : \A m \in 1..(n - 1) : ks[m] # ks[n]}
        nth(j) == CHOOSE n \in firsts : Cardinality({m \in firsts : m < n}) = j - 1
    IN [j \in 1..Cardinality(firsts) |-> ks[nth(j)]]

\* The text of each page, a page whose extraction fails counted as empty.
TextsWithFailuresEmpty ==
    [n \in DOMAIN Pages |-> IF Pages[n].fails THEN <<>> ELSE Pages[n].text]

\* The mapping for page texts `texts`: per keyword, ascending, the pages
\* whose text is not empty and contains the keyword.
MappingOfTexts(texts, ks) ==
    LET keys == FirstOccurrences(ks)
    IN [j \in DOMAIN keys |->
           <<keys[j],
             SortedList({n \in DOMAIN texts :
                            /\ texts[n] # <<>>
                            /\ ContainsIgnoringCase(texts[n], keys[j])})>>]

\* C3: a page whose extraction fails never ends search_pdf: the only error
\* that leaves it is the failure to open the file, the pages are visited in
\* order, all of them by the end, and the mapping returned is the one the
\* same document gives with every failing page empty.
C3_PageFailureIsEmptyText ==
    entry = "search_pdf" =>
        /\ error # "None" => (docs[cur].corrupt /\ visited = <<>>)
        /\ visited = [n \in 1..Len(visited) |-> n - 1]
        /\ pc = "done" =>
               /\ Len(visited) = Len(Pages)
               /\ ret = MappingOfTexts(TextsWithFailuresEmpty, keywords)

\* The first page fails, the second too, the third is read and matches.
C3_Witness ==
    /\ SearchReturned
    /\ Len(Pages) = 3
    /\ Pages[1].fails /\ Pages[2].fails /\ ~Pages[3].fails
    /\ visited = <<0, 1, 2>>
    /\ \E n \in DOMAIN ret : ret[n][2] = <<3>>

----------------------------------------------------------------------------
(* load_keywords: claim C4, checked under SpecKeywords *)

\* The pieces of the text between runs of separators, as pairs <<first,
\* last>> of positions: maximal stretches without a newline or a comma.
Stretches(text) ==
    {<<a, b>> \in (DOMAIN text) \X (DOMAIN text) :
        /\ a <= b
        /\ \A n \in a..b : text[n] \notin Separators
        /\ a = 1 \/ text[a - 1] \in Separators
        /\ b = Len(text) \/ text[b + 1] \in Separators}

\* A stretch without the whitespace around it; <<>> when it is all whitespace.
Trimmed(text, stretch) ==
    LET inked == {n \in stretch[1]..stretch[2] : text[n] \notin Whitespace}
    IN IF inked = {} THEN <<>>
       ELSE SubSeq(text, CHOOSE n \in inked : \A m \in inked : n <= m,
                         CHOOSE n \in inked : \A m \in inked : m <= n)

\* The trimmed non-empty pieces of the text, in the order of the text.
TrimmedPieces(text) ==
    LET kept == {st \in Stretches(text) : Trimmed(text, st) # <<>>}
        nth(j) == CHOOSE st \in kept :
                      Cardinality({other \in kept : other[1] < st[1]}) = j - 1
    IN [j \in 1..Cardinality(kept) |-> Trimmed(text, nth(j))]

\* C4: load_keywords returns, in the order of the file and without removing
\* repetitions, exactly the trimmed non-empty pieces between runs of newlines
\* and commas; no entry is empty or has whitespace around it, none contains
\* a newline or a comma; "Alpha, beta\ngamma," gives Alpha, beta, gamma.
C4_TrimmedPiecesInOrder ==
    (entry = "load_keywords" /\ pc = "done") =>
        /\ keywords = TrimmedPieces(kwfile.text)
        /\ \A n \in DOMAIN keywords :
               /\ keywords[n] # <<>>
               /\ keywords[n][1] \notin Whitespace
               /\ keywords[n][Len(keywords[n])] \notin Whitespace
               /\ \A m \in DOMAIN keywords[n] : keywords[n][m] \notin {"\n", ","}
        /\ kwfile.text = ExampleContent
               => keywords = <<<<"A", "l", "p", "h", "a">>, <<"b", "e", "t", "a">>, <<"g", "a", "m", "m", "a">>>>

\* The example of the claim has been loaded.
C4_Witness ==
    /\ entry = "load_keywords"
    /\ pc = "done"
    /\ kwfile.text = ExampleContent
    /\ Len(keywords) = 3

----------------------------------------------------------------------------
(* gather_pdf_paths: claims C6 and C7, checked under SpecGather *)

\* gather_pdf_paths was called for a directory alone, and has returned.
DirectoryResolved ==
    /\ entry = "gather_pdf_paths"
    /\ pc = "done"
    /\ args.pdf_file = None
    /\ args.pdf_dir # None

\* The name ends in a dot and the letters p, d, f in either case, after at
\* least one other character.
HasPdfExtension(name) ==
    /\ Len(name) >= 5
    /\ Lower(SubSeq(name, Len(name) - 3, Len(name))) = <<".", "p", "d", "f">>

\* The returned list holds exactly the children with the extension pdf, each
\* once.
ResolvedChildrenAreThePdfs ==
    /\ Range(pdf_paths) = {Child(n) : n \in {m \in dirListing.names : HasPdfExtension(m)}}
    /\ \A a, b \in DOMAIN pdf_paths : pdf_paths[a] = pdf_paths[b] => a = b

\* C6, as the claim states it: the children with the extension pdf, sorted
\* by name alphabetically whatever the letter case; B.pdf, a.PDF and c.txt
\* resolve to a.PDF, B.pdf.
C6_Original_SortedIgnoringCase ==
    DirectoryResolved =>
        /\ ResolvedChildrenAreThePdfs
        /\ \A n \in 1..(Len(pdf_paths) - 1) :
               LexLess(Lower(pdf_paths[n].name), Lower(pdf_paths[n + 1].name))
        /\ dirListing.names = {NameB, NameA, NameC}
               => pdf_paths = <<Child(NameA), Child(NameB)>>

\* C6, amended: the children with the extension pdf, sorted ascending in the
\* order pathlib gives paths on the platform: by code point on POSIX, where
\* every capital letter comes before every small one (B.pdf, a.PDF), and
\* whatever the letter case on Windows (a.PDF, B.pdf).
C6_SortedInPathOrder ==
    DirectoryResolved =>
        /\ ResolvedChildrenAreThePdfs
        /\ \A n \in 1..(Len(pdf_paths) - 1) :
               IF flavour = "posix"
               THEN LexLess(pdf_paths[n].name, pdf_paths[n + 1].name)
               ELSE LexLess(Lower(pdf_paths[n].name), Lower(pdf_paths[n + 1].name))
        /\ dirListing.names = {NameB, NameA, NameC}
               => pdf_paths = IF flavour = "posix"
                              THEN <<Child(NameB), Child(NameA)>>
                              ELSE <<Child(NameA), Child(NameB)>>

\* The directory of the example, resolved on POSIX.
C6_Witness ==
    /\ DirectoryResolved
    /\ flavour = "posix"
    /\ dirListing.names = {NameB, NameA, NameC}
    /\ pdf_paths = <<Child(NameB), Child(NameA)>>

\* C7: gather_pdf_paths raises unless exactly one of pdf_dir and pdf_file is
\* supplied, and returns no list then.
C7_RaisesUnlessExactlyOne ==
    ( /\ entry = "gather_pdf_paths"
      /\ pc \in {"done", "aborted"}
      /\ (args.pdf_dir = None) = (args.pdf_file = None) )
    => /\ pc = "aborted"
       /\ error # "None"
       /\ "pdf_paths" \notin defined

----------------------------------------------------------------------------
(* run_search and write_csv: claim C5, checked under SpecRun *)

\* write_csv has written the rows of run_search's result.
CsvWritten == entry = "run_search" /\ pc = "done"

\* The base names of the paths, and the keywords, each counted once.
FileNames == {pdf_paths[n].name : n \in DOMAIN pdf_paths}
DistinctKeywords == Range(keywords)

----------------------------------------------------------------------------
(* main: claims C8, C9, C10, checked under Spec *)

\* The PDF directory or the single PDF file named on the command line does
\* not exist.
PdfPathMissing ==
    \/ args.pdf_dir # None /\ ~dirListing.exists
    \/ args.pdf_file # None /\ ~fileExists

Terminated == pc \in {"done", "aborted"}

\* C8: with an empty keyword list, or an empty list of resolved paths, main
\* has returned without an error after its message, no PDF was opened and no
\* output file was written.
C8_NothingToDoEndsQuietly ==
    entry = "main" =>
        /\ ("keywords" \in defined /\ keywords = <<>>) =>
               /\ pc = "done"
               /\ error = "None"
               /\ printed = <<"No keywords found">>
               /\ opened = <<>>
               /\ written = <<>>
        /\ ("pdf_paths" \in defined /\ pdf_paths = <<>>) =>
               /\ pc = "done"
               /\ error = "None"
               /\ printed = <<"No PDF files found">>
               /\ opened = <<>>
               /\ written = <<>>

\* Keywords were loaded, and the directory holds no PDF.
C8_Witness ==
    /\ entry = "main"
    /\ pc = "done"
    /\ keywords # <<>>
    /\ "pdf_paths" \in defined
    /\ pdf_paths = <<>>
    /\ dirListing.exists
    /\ dirListing.names # {}

C10_Original_MissingPathAlwaysAborts ==
    (entry = "main" /\ Terminated /\ (~kwfile.exists \/ PdfPathMissing)) =>
        /\ pc = "aborted"
        /\ error = "FileNotFoundError"
        /\ written = <<>>

\* C10, amended: a missing keyword file ends the run with a not-found error;
\* so does a missing PDF directory or PDF file when the keyword file yields
\* a keyword; when the keyword file yields no keyword the run returns before
\* it looks at the PDF path, and ends normally though the path is missing.
\* In each case no PDF is opened and no output file is written.
C10_MissingPathAbortsOnceLookedAt ==
    (entry = "main" /\ (~kwfile.exists \/ PdfPathMissing)) =>
        /\ opened = <<>>
        /\ written = <<>>
        /\ Terminated =>
               IF kwfile.exists /\ keywords = <<>>
               THEN pc = "done" /\ error = "None"
               ELSE pc = "aborted" /\ error = "FileNotFoundError"
        /\ pc = "gather" => keywords # <<>>
        /\ pc \in {"load_keywords", "gather"} \/ Terminated

\* Keywords were loaded and the PDF directory is missing: the run is aborted.
C10_Witness ==
    /\ entry = "main"
    /\ pc = "aborted"
    /\ error = "FileNotFoundError"
    /\ kwfile.exists
    /\ keywords # <<>>
    /\ args.pdf_dir # None
    /\ ~dirListing.exists

====
